---- MODULE Spec2Model ----
(***************************************************************************)
(* A model of the Syncs client runtime (src/lib/syncs.js): the connection  *)
(* manager, the socket-id handshake, the two send primitives, the command  *)
(* router, publish/subscribe and the shared-object store.                  *)
(*                                                                         *)
(* The transport is the WebSocket object of the "ws" package.  It is       *)
(* modelled by its readyState machine (CONNECTING, OPEN, CLOSING, CLOSED): *)
(* close() moves an OPEN socket to CLOSING and aborts the handshake of a   *)
(* CONNECTING one (ABORTING below: readyState CLOSING on a socket that was *)
(* never established, so it delivers no message); the 'close' event is     *)
(* delivered later as an event of its own; 'message' events are delivered  *)
(* while the socket is OPEN or CLOSING; and send() without a callback      *)
(* raises unless readyState is OPEN.  Every transport the client           *)
(* ever opened keeps the handlers connect() wired to it, so a superseded   *)
(* transport still delivers its events to the same Syncs instance.         *)
(*                                                                         *)
(* Application callbacks are opaque: the model records which ones a step   *)
(* invoked.  The variable last records what the last step did (callbacks   *)
(* invoked, frames handed to the transport, value returned).               *)
(***************************************************************************)
EXTENDS Naturals, Sequences, FiniteSets, TLC

\* Number of transports opened over a run (connect() is not taken beyond it).
MaxSockets == 3

NULL == "null"
SocketIds == {"s1", "s2"}
Messages == {"m1", "m2"}

\* Plain-message listeners registered over a run (onMessage is not taken beyond it).
MaxListeners == 2
Listeners == {"f1", "f2"}

Events == {"e1", "e2"}
Callbacks == {"c1", "c2"}
Payloads == {"d1", "d2"}

Names == {"n1"}
Groups == {"g1"}
Keys == {"k1", "k2"}
Values == {"v1", "v2"}
Handlers == {"h1"}
ABSENT == "absent"

\* A registry slot: <<scope, group, name>> (group is NULL outside GROUP).
Slots ==
    {<<"GLOBAL", NULL, n>> : n \in Names}
        \cup {<<"GROUP", g, n>> : g \in Groups, n \in Names}
        \cup {<<"CLIENT", NULL, n>> : n \in Names}

\* Property reads on io.remote, remote calls issued and Promises of local
\* functions in flight over a run (the operations are not taken beyond them).
MaxCallables == 2
MaxPromises == 2
MaxDeferred == 2

\* Names the peer may ask for; toString is inherited by every plain object,
\* so by this.rmiFunctions too.
FunctionNames == {"fa", "toString"}
InheritedNames == {"toString"}

\* What a local function does when called: return a value, return a Promise,
\* or raise.
Behaviours == {"value", "promise", "throw"}
NoFunction == "none"

\* Correlation ids: the k-th id generateRMIRequestUID returns is k; the last
\* one is an id this client never generated.
CallIds == 1..(MaxCallables + 1)
Arguments == {"a1", "a2"}
Results == {"r1", "r2"}

VARIABLES
    socketId,               \* this.socketId
    online,                 \* this.online
    handledClose,           \* this.handledClose
    autoReconnect,          \* this.configs.autoReconnect
    sockets,                \* readyState of every transport opened so far
    socket,                 \* this.socket: index into sockets, 0 = undefined
    timers,                 \* reconnect timers scheduled and not yet fired
    onOpenListener,         \* whether this.onOpenListener is set
    onCloseListener,        \* whether this.onCloseListener is set
    onDisconnectListener,   \* whether this.onDisconnectListener is set
    onMessageListeners,     \* this.onMessageListeners (array, in registration order)
    subscriptions,          \* this.subscriptions: event -> Set of callbacks
    globalSharedObjects,    \* this.globalSharedObjects: name -> SharedObject
    groupSharedObjects,     \* this.groupSharedObjects: group -> (name -> SharedObject)
    clientSharedObjects,    \* this.clientSharedObjects: name -> SharedObject
    rmiFunctions,           \* this.rmiFunctions: name -> local function
    deferred,               \* Promises returned by local functions, not yet settled
    callables,              \* functions handed out by property reads on io.remote
    promises,               \* Promises returned by remote calls
    rmiResultCallbacks,     \* this.rmiResultCallbacks: id -> [resolve, reject] of a Promise
    subCount,               \* history: subscribe() calls per (event, callback) since its removal
    everHandlers,           \* history: the change handlers ever registered on each shared object
    disconnectPending,      \* history: disconnect() was called since the last close event
    last                    \* history: what the last step did

vars == <<socketId, online, handledClose, autoReconnect, sockets, socket, timers,
          onOpenListener, onCloseListener, onDisconnectListener,
          onMessageListeners, subscriptions, globalSharedObjects,
          groupSharedObjects, clientSharedObjects, rmiFunctions, deferred,
          callables, promises, rmiResultCallbacks, subCount, everHandlers,
          disconnectPending, last>>

\* Everything the program itself holds (no history variables).
progVars == <<socketId, online, handledClose, autoReconnect, sockets, socket, timers,
              onOpenListener, onCloseListener, onDisconnectListener,
              onMessageListeners, subscriptions, globalSharedObjects,
              groupSharedObjects, clientSharedObjects, rmiFunctions, deferred,
              callables, promises, rmiResultCallbacks>>

\* The function registry, the Promises in flight and the pending-call table.
rmiVars == <<rmiFunctions, deferred, callables, promises, rmiResultCallbacks>>

\* Everything above the connection manager: the message listeners, the
\* subscription table, the shared-object registries and the RMI layer.
layerVars == <<onMessageListeners, subscriptions, subCount, globalSharedObjects,
               groupSharedObjects, clientSharedObjects, everHandlers, rmiVars>>

listenerVars == <<onOpenListener, onCloseListener, onDisconnectListener>>

Out(op, s, arg, ret, calls, frames, opened, sched) ==
    [op |-> op, sock |-> s, arg |-> arg, ret |-> ret, calls |-> calls,
     frames |-> frames, opened |-> opened, sched |-> sched]

Frame(s, command, type, data) ==
    [sock |-> s, command |-> command, type |-> type, data |-> data]

\* An entry of the subscriptions Map: absent, or a Set kept in insertion order.
NoSet == [has |-> FALSE, set |-> <<>>]

\* new SharedObject(): not yet wired to a name, read-only, empty data, no
\* change handler.  gen counts the objects constructed for a registry slot.
NoObject ==
    [exists |-> FALSE, gen |-> 0, name |-> NULL, type |-> NULL, readOnly |-> TRUE,
     data |-> [k \in Keys |-> ABSENT], onChangeHandler |-> NULL]

\* An entry of the rmiResultCallbacks Map: absent, or the [resolve, reject]
\* pair of the Promise promises[promise].
NoEntry == [has |-> FALSE, promise |-> 0]

\* An entry of the groupSharedObjects Map: absent, or a Map name -> SharedObject.
NoGroup == [has |-> FALSE, objs |-> [n \in Names |-> NoObject]]

----------------------------------------------------------------------------
(* Transport                                                               *)

\* socket.send(data) with no callback: accepted only when readyState is OPEN;
\* on an undefined socket the property access raises.
SocketSendOk == socket # 0 /\ sockets[socket] = "OPEN"

\* socket.close() on a socket that is connecting or open.
socketClose(state) == IF state = "CONNECTING" THEN "ABORTING" ELSE "CLOSING"

\* 'message' events are emitted while the socket is open or closing.
Receiving(s) == sockets[s] \in {"OPEN", "CLOSING"}

----------------------------------------------------------------------------
(* Send primitives                                                         *)

\* send(message): return value ("throw" when socket.send raises).
sendRet ==
    IF online THEN (IF SocketSendOk THEN "true" ELSE "throw") ELSE "false"

sendFrames(m) ==
    IF online /\ SocketSendOk THEN <<Frame(socket, FALSE, NULL, m)>> ELSE <<>>

sendCommandRet_NoCatch == IF SocketSendOk THEN "true" ELSE "throw"

sendCommandRet_OnlineOnly == IF online /\ SocketSendOk THEN "true" ELSE "false"

\* sendCommand(message): return value; the try/catch turns a raise into false.
sendCommandRet == IF SocketSendOk THEN "true" ELSE "false"

\* sendCommand(message): the frames handed to the transport, tagged command: true.
sendCommandFrames(type, data) ==
    IF SocketSendOk THEN <<Frame(socket, TRUE, type, data)>> ELSE <<>>

----------------------------------------------------------------------------
(* Connection manager                                                      *)

connectBody_NoGuard ==
    /\ sockets' = Append(sockets, "CONNECTING")
    /\ socket' = Len(sockets) + 1

\* connect(): returns at once when online, else opens a transport and wires it.
connectBody ==
    IF online
    THEN UNCHANGED <<sockets, socket>>
    ELSE /\ sockets' = Append(sockets, "CONNECTING")
         /\ socket' = Len(sockets) + 1

CanOpen == Len(sockets) < MaxSockets

Init ==
    /\ socketId = NULL
    /\ online = FALSE
    /\ handledClose = FALSE
    /\ autoReconnect \in BOOLEAN
    /\ \E autoConnect \in BOOLEAN :
          /\ sockets = IF autoConnect THEN <<"CONNECTING">> ELSE <<>>
          /\ socket = IF autoConnect THEN 1 ELSE 0
    /\ timers = 0
    /\ onOpenListener = FALSE
    /\ onCloseListener = FALSE
    /\ onDisconnectListener = FALSE
    /\ onMessageListeners = <<>>
    /\ subscriptions = [e \in Events |-> NoSet]
    /\ subCount = [e \in Events |-> [c \in Callbacks |-> 0]]
    /\ globalSharedObjects = [n \in Names |-> NoObject]
    /\ groupSharedObjects = [g \in Groups |-> NoGroup]
    /\ clientSharedObjects = [n \in Names |-> NoObject]
    /\ everHandlers = [slot \in Slots |-> {}]
    /\ rmiFunctions = [f \in FunctionNames |-> NoFunction]
    /\ deferred = <<>>
    /\ callables = <<>>
    /\ promises = <<>>
    /\ rmiResultCallbacks = [id \in CallIds |-> NoEntry]
    /\ disconnectPending = FALSE
    /\ last = Out("init", 0, NULL, "none", <<>>, <<>>, 0, FALSE)

\* The application calls connect().
Connect ==
    /\ online \/ CanOpen
    /\ connectBody
    /\ last' = Out("connect", 0, NULL, "none", <<>>, <<>>,
                   Len(sockets') - Len(sockets), FALSE)
    /\ UNCHANGED <<layerVars, socketId, online, handledClose, autoReconnect, timers,
                   listenerVars, disconnectPending>>

disconnectFlag_Forgotten == handledClose

\* disconnect(): the value handledClose takes.
disconnectFlag == TRUE

\* The application calls disconnect(): socket.close() raises on an undefined
\* socket, starts the closing handshake of a CONNECTING or OPEN socket and does
\* nothing on a CLOSING or CLOSED one.
Disconnect ==
    /\ handledClose' = disconnectFlag
    /\ disconnectPending' = TRUE
    /\ sockets' = IF socket # 0 /\ sockets[socket] \in {"CONNECTING", "OPEN"}
                  THEN [sockets EXCEPT ![socket] = socketClose(@)]
                  ELSE sockets
    /\ last' = Out("disconnect", socket, NULL, IF socket = 0 THEN "throw" ELSE "none",
                   <<>>, <<>>, 0, FALSE)
    /\ UNCHANGED <<layerVars, socketId, online, autoReconnect, socket, timers, listenerVars>>

OnOpen ==
    /\ onOpenListener' = TRUE
    /\ last' = Out("onOpen", 0, NULL, "none", <<>>, <<>>, 0, FALSE)
    /\ UNCHANGED <<layerVars, socketId, online, handledClose, autoReconnect, sockets, socket,
                   timers, onCloseListener, onDisconnectListener, disconnectPending>>

OnClose ==
    /\ onCloseListener' = TRUE
    /\ last' = Out("onClose", 0, NULL, "none", <<>>, <<>>, 0, FALSE)
    /\ UNCHANGED <<layerVars, socketId, online, handledClose, autoReconnect, sockets, socket,
                   timers, onOpenListener, onDisconnectListener, disconnectPending>>

OnDisconnect ==
    /\ onDisconnectListener' = TRUE
    /\ last' = Out("onDisconnect", 0, NULL, "none", <<>>, <<>>, 0, FALSE)
    /\ UNCHANGED <<layerVars, socketId, online, handledClose, autoReconnect, sockets, socket,
                   timers, onOpenListener, onCloseListener, disconnectPending>>

\* The transport finishes its opening handshake (the client wires no 'open' handler).
TransportOpen(s) ==
    /\ sockets[s] = "CONNECTING"
    /\ sockets' = [sockets EXCEPT ![s] = "OPEN"]
    /\ last' = Out("open", s, NULL, "none", <<>>, <<>>, 0, FALSE)
    /\ UNCHANGED <<layerVars, socketId, online, handledClose, autoReconnect, socket, timers,
                   listenerVars, disconnectPending>>

closeIntentional_IgnoreConfig == handledClose

closeIntentional_Inverted == handledClose \/ autoReconnect

\* The branch test of the 'close' handler.
closeIntentional == handledClose \/ ~autoReconnect

\* The 'close' event of transport s (a failed attempt, a drop, or the end of
\* the closing handshake) and the handler handleOnClose wired to it.
TransportClose(s) ==
    /\ sockets[s] # "CLOSED"
    /\ sockets' = [sockets EXCEPT ![s] = "CLOSED"]
    /\ online' = FALSE
    /\ disconnectPending' = FALSE
    /\ IF closeIntentional
       THEN /\ handledClose' = FALSE
            /\ timers' = timers
            /\ last' = Out("close", s, NULL, "none",
                           IF onCloseListener THEN <<"close">> ELSE <<>>,
                           <<>>, 0, FALSE)
       ELSE /\ handledClose' = handledClose
            /\ timers' = timers + 1
            /\ last' = Out("close", s, NULL, "none",
                           IF onDisconnectListener THEN <<"disconnect">> ELSE <<>>,
                           <<>>, 0, TRUE)
    /\ UNCHANGED <<layerVars, socketId, autoReconnect, socket, listenerVars>>

timerBody_Unconditional ==
    /\ sockets' = Append(sockets, "CONNECTING")
    /\ socket' = Len(sockets) + 1

\* The timer callback: if (!this.online) this.connect().
timerBody ==
    IF ~online
    THEN connectBody
    ELSE UNCHANGED <<sockets, socket>>

\* A reconnect timer fires.
TimerFire ==
    /\ timers > 0
    /\ online \/ CanOpen
    /\ timers' = timers - 1
    /\ timerBody
    /\ last' = Out("timer", 0, NULL, "none", <<>>, <<>>,
                   Len(sockets') - Len(sockets), FALSE)
    /\ UNCHANGED <<layerVars, socketId, online, handledClose, autoReconnect, listenerVars,
                   disconnectPending>>

----------------------------------------------------------------------------
(* Handshake commands                                                      *)

\* Inbound {command: true, type: 'getSocketId'} on transport s: sendSocketId(),
\* then the open callback when a socketId is already held.
RecvGetSocketId(s) ==
    /\ Receiving(s)
    /\ online' = IF socketId # NULL THEN TRUE ELSE online
    /\ last' = Out("getSocketId", s, NULL, "none",
                   IF socketId # NULL /\ onOpenListener THEN <<"open">> ELSE <<>>,
                   sendCommandFrames("reportSocketId", socketId), 0, FALSE)
    /\ UNCHANGED <<layerVars, socketId, handledClose, autoReconnect, sockets, socket, timers,
                   listenerVars, disconnectPending>>

setSocketIdOnline_Forgotten == online

\* case 'setSocketId': the value online takes.
setSocketIdOnline == TRUE

\* Inbound {command: true, type: 'setSocketId', socketId: id} on transport s.
RecvSetSocketId(s, id) ==
    /\ Receiving(s)
    /\ socketId' = id
    /\ online' = setSocketIdOnline
    /\ last' = Out("setSocketId", s, id, "none",
                   IF onOpenListener THEN <<"open">> ELSE <<>>, <<>>, 0, FALSE)
    /\ UNCHANGED <<layerVars, handledClose, autoReconnect, sockets, socket, timers,
                   listenerVars, disconnectPending>>

----------------------------------------------------------------------------
(* Application sends                                                       *)

Send(m) ==
    /\ last' = Out("send", socket, m, sendRet, <<>>, sendFrames(m), 0, FALSE)
    /\ UNCHANGED <<progVars, subCount, everHandlers, disconnectPending>>

SendCommand(m) ==
    /\ last' = Out("sendCommand", socket, m, sendCommandRet, <<>>,
                   sendCommandFrames(NULL, m), 0, FALSE)
    /\ UNCHANGED <<progVars, subCount, everHandlers, disconnectPending>>

----------------------------------------------------------------------------

Next ==
    \/ Connect
    \/ Disconnect
    \/ OnOpen
    \/ OnClose
    \/ OnDisconnect
    \/ TimerFire
    \/ \E s \in 1..Len(sockets) : TransportOpen(s)
    \/ \E s \in 1..Len(sockets) : TransportClose(s)
    \/ \E s \in 1..Len(sockets) : RecvGetSocketId(s)
    \/ \E s \in 1..Len(sockets), id \in SocketIds : RecvSetSocketId(s, id)
    \/ \E m \in Messages : Send(m)
    \/ \E m \in Messages : SendCommand(m)

Spec == Init /\ [][Next]_vars

----------------------------------------------------------------------------
(* Inbound frames                                                          *)
(*                                                                         *)
(* A frame on the wire is text.  It either decodes (decodeURI, then        *)
(* JSON.parse) to a JSON document or it does not.  A document is a JSON    *)
(* object with the fields below, or a JSON scalar (json # "object").       *)

DefaultDoc ==
    [json |-> "object", body |-> NULL, command |-> FALSE, type |-> NULL,
     socketId |-> NULL, event |-> NULL, data |-> NULL, scope |-> NULL,
     name |-> NULL, group |-> NULL, values |-> <<>>,
     id |-> NULL, args |-> <<>>, result |-> NULL, error |-> NULL]

\* The JSON scalars false and 0, a JSON string, and a plain JSON object.
JsonFalse == [DefaultDoc EXCEPT !.json = "false"]
JsonZero == [DefaultDoc EXCEPT !.json = "zero"]
JsonString(x) == [DefaultDoc EXCEPT !.json = "string", !.body = x]
PlainDoc(m) == [DefaultDoc EXCEPT !.body = m]

CommandDoc(type) == [DefaultDoc EXCEPT !.command = TRUE, !.type = type]
SetSocketIdDoc(id) == [CommandDoc("setSocketId") EXCEPT !.socketId = id]
EventDoc(e, d) == [CommandDoc("event") EXCEPT !.event = e, !.data = d]
SyncDoc(scope, g, n, values) ==
    [CommandDoc("sync") EXCEPT !.scope = scope, !.group = g, !.name = n,
                               !.values = values]

RmiDoc(n, args, id) ==
    [CommandDoc("rmi") EXCEPT !.name = n, !.args = args, !.id = id]
RmiResultDoc(id, result, error) ==
    [CommandDoc("rmi-result") EXCEPT !.id = id, !.result = result, !.error = error]

\* Text that decodes to doc, and text that does not decode at all.
Encoded(doc) == [decodable |-> TRUE, text |-> NULL, doc |-> doc]
Garbled(text) == [decodable |-> FALSE, text |-> text, doc |-> JsonString(text)]

\* JavaScript truthiness of a decoded document.
Truthy(doc) == doc.json \notin {"false", "zero"}

parseMessage_Unchecked(raw) == raw.doc

\* parseMessage(message): the decoded document, or false when decoding raises.
parseMessage(raw) == IF raw.decodable THEN raw.doc ELSE JsonFalse

\* The values batches of the sync commands the peer sends.
Batches ==
    {<<>>, ("k1" :> "v1"), ("k1" :> "v2"), ("k2" :> "v1"),
     ("k1" :> "v2") @@ ("k2" :> "v1")}

----------------------------------------------------------------------------
(* Plain-message listeners                                                 *)

\* onMessage(listener): pushed onto the array.
OnMessage(l) ==
    /\ Len(onMessageListeners) < MaxListeners
    /\ onMessageListeners' = Append(onMessageListeners, l)
    /\ last' = Out("onMessage", 0, l, "none", <<>>, <<>>, 0, FALSE)
    /\ UNCHANGED <<socketId, online, handledClose, autoReconnect, sockets, socket,
                   timers, listenerVars, rmiVars, everHandlers, subscriptions, subCount, globalSharedObjects,
                   groupSharedObjects, clientSharedObjects, disconnectPending>>

listenerCalls_Reversed(doc) ==
    [i \in 1..Len(onMessageListeners) |->
        [cb |-> onMessageListeners[Len(onMessageListeners) + 1 - i], arg |-> doc]]

\* for (let listener of this.onMessageListeners) listener(parsedMessage)
listenerCalls(doc) ==
    [i \in 1..Len(onMessageListeners) |-> [cb |-> onMessageListeners[i], arg |-> doc]]

----------------------------------------------------------------------------
(* Publish / subscribe                                                     *)

Range(seq) == {seq[i] : i \in 1..Len(seq)}

setAdd_Push(seq, c) == Append(seq, c)

\* Set.prototype.add: a member keeps its place, a new value goes last.
setAdd(seq, c) == IF c \in Range(seq) THEN seq ELSE Append(seq, c)

setDelete_Clear(seq, c) == <<>>

\* Set.prototype.delete
setDelete(seq, c) == SelectSeq(seq, LAMBDA x : x # c)

\* subscribe(event, callback)
Subscribe(e, c) ==
    /\ subscriptions' = [subscriptions EXCEPT
                            ![e] = [has |-> TRUE, set |-> setAdd(@.set, c)]]
    /\ subCount' = [subCount EXCEPT ![e][c] = IF @ = 0 THEN 1 ELSE 2]
    /\ last' = Out("subscribe", 0, [event |-> e, callback |-> c], "none",
                   <<>>, <<>>, 0, FALSE)
    /\ UNCHANGED <<socketId, online, handledClose, autoReconnect, sockets, socket,
                   timers, listenerVars, rmiVars, everHandlers, onMessageListeners, globalSharedObjects,
                   groupSharedObjects, clientSharedObjects, disconnectPending>>

\* unSubscribe(event, callback)
UnSubscribe(e, c) ==
    /\ subscriptions' = IF ~subscriptions[e].has
                        THEN subscriptions
                        ELSE [subscriptions EXCEPT ![e].set = setDelete(@, c)]
    /\ subCount' = [subCount EXCEPT ![e][c] = 0]
    /\ last' = Out("unSubscribe", 0, [event |-> e, callback |-> c], "none",
                   <<>>, <<>>, 0, FALSE)
    /\ UNCHANGED <<socketId, online, handledClose, autoReconnect, sockets, socket,
                   timers, listenerVars, rmiVars, everHandlers, onMessageListeners, globalSharedObjects,
                   groupSharedObjects, clientSharedObjects, disconnectPending>>

\* publish(event, data): one event command through sendCommand.
Publish(e, d) ==
    /\ last' = Out("publish", socket, [event |-> e, data |-> d], sendCommandRet, <<>>,
                   sendCommandFrames("event", [event |-> e, data |-> d]), 0, FALSE)
    /\ UNCHANGED <<progVars, subCount, everHandlers, disconnectPending>>

eventCalls_AnyEvent(c) ==
    IF c.event # NULL
    THEN [i \in 1..Len(subscriptions["e1"].set) |->
              [cb |-> subscriptions["e1"].set[i], arg |-> c.data]]
    ELSE <<>>

\* handleEvent(command): the callbacks invoked, each with command.data.
eventCalls(c) ==
    IF c.event # NULL /\ subscriptions[c.event].has
    THEN [i \in 1..Len(subscriptions[c.event].set) |->
              [cb |-> subscriptions[c.event].set[i], arg |-> c.data]]
    ELSE <<>>

\* case 'event' of handleCommand, for a command that arrived on transport s.
handleEvent(s, c) ==
    /\ last' = Out("event", s, c, "none", eventCalls(c), <<>>, 0, FALSE)
    /\ UNCHANGED <<progVars, subCount, everHandlers, disconnectPending>>

----------------------------------------------------------------------------
(* Shared objects                                                          *)

\* The SharedObject a registry holds for a slot (NoObject when it holds none).
objAt(slot) ==
    CASE slot[1] = "GLOBAL" -> globalSharedObjects[slot[3]]
      [] slot[1] = "GROUP"  -> groupSharedObjects[slot[2]].objs[slot[3]]
      [] slot[1] = "CLIENT" -> clientSharedObjects[slot[3]]

\* The object behind a view is changed in place, whichever registry holds it.
putObj(slot, o) ==
    /\ globalSharedObjects' = IF slot[1] = "GLOBAL"
                              THEN [globalSharedObjects EXCEPT ![slot[3]] = o]
                              ELSE globalSharedObjects
    /\ groupSharedObjects' = IF slot[1] = "GROUP"
                             THEN [groupSharedObjects EXCEPT ![slot[2]].objs[slot[3]] = o]
                             ELSE groupSharedObjects
    /\ clientSharedObjects' = IF slot[1] = "CLIENT"
                              THEN [clientSharedObjects EXCEPT ![slot[3]] = o]
                              ELSE clientSharedObjects

\* new SharedObject() wired by one of the three factories; old is what the
\* registry slot held before.
newSharedObject(old, n, type, readOnly) ==
    [exists |-> TRUE, gen |-> old.gen + 1, name |-> n, type |-> type,
     readOnly |-> readOnly, data |-> [k \in Keys |-> ABSENT], onChangeHandler |-> NULL]

globalLevel(old, n) == newSharedObject(old, n, "GLOBAL", TRUE)
groupLevel(old, n) == newSharedObject(old, n, "GROUP", TRUE)
clientLevel(old, n) == newSharedObject(old, n, "CLIENT", FALSE)

\* The get trap of the view.
onGet(obj, k) == IF obj.data[k] # ABSENT THEN obj.data[k] ELSE NULL

\* What an accessor hands back: the view of the object now in the slot.
View(slot, obj) == [slot |-> slot, gen |-> obj.gen]

sharedHas_Never(n) == FALSE

\* this.clientSharedObjects.has(name)
sharedHas(n) == clientSharedObjects[n].exists

\* shared(name)
Shared(n) ==
    /\ clientSharedObjects' = IF sharedHas(n)
                              THEN clientSharedObjects
                              ELSE [clientSharedObjects EXCEPT ![n] = clientLevel(@, n)]
    /\ last' = Out("shared", 0, <<"CLIENT", NULL, n>>,
                   View(<<"CLIENT", NULL, n>>, clientSharedObjects'[n]),
                   <<>>, <<>>, 0, FALSE)
    /\ UNCHANGED <<socketId, online, handledClose, autoReconnect, sockets, socket,
                   timers, listenerVars, rmiVars, everHandlers, onMessageListeners, subscriptions, subCount,
                   globalSharedObjects, groupSharedObjects, disconnectPending>>

\* groupShared(group, name)
GroupShared(g, n) ==
    /\ groupSharedObjects' =
          IF groupSharedObjects[g].has /\ groupSharedObjects[g].objs[n].exists
          THEN groupSharedObjects
          ELSE [groupSharedObjects EXCEPT
                   ![g] = [has |-> TRUE, objs |-> [@.objs EXCEPT ![n] = groupLevel(@, n)]]]
    /\ last' = Out("groupShared", 0, <<"GROUP", g, n>>,
                   View(<<"GROUP", g, n>>, groupSharedObjects'[g].objs[n]),
                   <<>>, <<>>, 0, FALSE)
    /\ UNCHANGED <<socketId, online, handledClose, autoReconnect, sockets, socket,
                   timers, listenerVars, rmiVars, everHandlers, onMessageListeners, subscriptions, subCount,
                   globalSharedObjects, clientSharedObjects, disconnectPending>>

\* globalShared(name)
GlobalShared(n) ==
    /\ globalSharedObjects' = IF globalSharedObjects[n].exists
                              THEN globalSharedObjects
                              ELSE [globalSharedObjects EXCEPT ![n] = globalLevel(@, n)]
    /\ last' = Out("globalShared", 0, <<"GLOBAL", NULL, n>>,
                   View(<<"GLOBAL", NULL, n>>, globalSharedObjects'[n]),
                   <<>>, <<>>, 0, FALSE)
    /\ UNCHANGED <<socketId, online, handledClose, autoReconnect, sockets, socket,
                   timers, listenerVars, rmiVars, everHandlers, onMessageListeners, subscriptions, subCount,
                   groupSharedObjects, clientSharedObjects, disconnectPending>>

applyHandler_KeepFirst(old, h) == IF old # NULL THEN old ELSE h

\* this.onChangeHandler = argumentsList[0]
applyHandler(old, h) == h

\* The apply trap with one argument: view(handler) on a view the application
\* obtained from an accessor.
SetHandler(slot, h) ==
    /\ objAt(slot).exists
    /\ putObj(slot, [objAt(slot) EXCEPT !.onChangeHandler = applyHandler(@, h)])
    /\ everHandlers' = [everHandlers EXCEPT ![slot] = @ \cup {h}]
    /\ last' = Out("apply", 0, [slot |-> slot, handler |-> h],
                   View(slot, objAt(slot)), <<>>, <<>>, 0, FALSE)
    /\ UNCHANGED <<socketId, online, handledClose, autoReconnect, sockets, socket,
                   timers, listenerVars, rmiVars, onMessageListeners, subscriptions,
                   subCount, disconnectPending>>

onSetRejects_Never(obj) == FALSE

\* if (this.readOnly) return false
onSetRejects(obj) == obj.readOnly

\* The change handler call of onSet, with {values: {[property]: value}, by: 'client'}.
onSetCalls(obj, k, v) ==
    IF obj.onChangeHandler # NULL
    THEN <<[cb |-> obj.onChangeHandler, arg |-> [values |-> (k :> v), by |-> "client"]]>>
    ELSE <<>>

\* sendSyncCommand(property): the command handed to sendCommand.
syncCommand(obj, k) ==
    [name |-> obj.name, scope |-> "CLIENT", key |-> k, value |-> obj.data[k]]

\* The set trap: view[k] = v on a view the application obtained from an accessor.
Write(slot, k, v) ==
    /\ objAt(slot).exists
    /\ IF onSetRejects(objAt(slot))
       THEN /\ UNCHANGED <<globalSharedObjects, groupSharedObjects, clientSharedObjects>>
            /\ last' = Out("set", socket, [slot |-> slot, key |-> k, value |-> v],
                           "false", <<>>, <<>>, 0, FALSE)
       ELSE LET written == [objAt(slot) EXCEPT !.data[k] = v] IN
            /\ putObj(slot, written)
            /\ last' = Out("set", socket, [slot |-> slot, key |-> k, value |-> v],
                           "true", onSetCalls(written, k, v),
                           sendCommandFrames("sync", syncCommand(written, k)), 0, FALSE)
    /\ UNCHANGED <<socketId, online, handledClose, autoReconnect, sockets, socket,
                   timers, listenerVars, rmiVars, everHandlers, onMessageListeners, subscriptions, subCount,
                   disconnectPending>>

setPropertiesData_Replace(data, values) ==
    [k \in Keys |-> IF k \in DOMAIN values THEN values[k] ELSE ABSENT]

\* for (let key in values) this.rawData.data[key] = values[key]
setPropertiesData(data, values) ==
    [k \in Keys |-> IF k \in DOMAIN values THEN values[k] ELSE data[k]]

\* setProperties(values): the object afterwards.
setProperties(obj, values) == [obj EXCEPT !.data = setPropertiesData(@, values)]

\* setProperties(values): the change handler call, with {values, by: 'server'}.
setPropertiesCalls(obj, values) ==
    IF obj.onChangeHandler # NULL
    THEN <<[cb |-> obj.onChangeHandler, arg |-> [values |-> values, by |-> "server"]]>>
    ELSE <<>>

\* The slot a sync command addresses.
syncSlot(c) == <<c.scope, IF c.scope = "GROUP" THEN c.group ELSE NULL, c.name>>

setGlobalSharedObject(c) ==
    /\ globalSharedObjects' =
          IF globalSharedObjects[c.name].exists
          THEN [globalSharedObjects EXCEPT ![c.name] = setProperties(@, c.values)]
          ELSE [globalSharedObjects EXCEPT ![c.name] = globalLevel(@, c.name)]
    /\ UNCHANGED <<groupSharedObjects, clientSharedObjects>>

setGroupSharedObject(c) ==
    /\ groupSharedObjects' =
          IF groupSharedObjects[c.group].has /\ groupSharedObjects[c.group].objs[c.name].exists
          THEN [groupSharedObjects EXCEPT
                   ![c.group].objs[c.name] = setProperties(@, c.values)]
          ELSE [groupSharedObjects EXCEPT
                   ![c.group] = [has |-> TRUE,
                                 objs |-> [@.objs EXCEPT ![c.name] = groupLevel(@, c.name)]]]
    /\ UNCHANGED <<globalSharedObjects, clientSharedObjects>>

setClientSharedObject(c) ==
    /\ clientSharedObjects' =
          IF clientSharedObjects[c.name].exists
          THEN [clientSharedObjects EXCEPT ![c.name] = setProperties(@, c.values)]
          ELSE [clientSharedObjects EXCEPT ![c.name] = clientLevel(@, c.name)]
    /\ UNCHANGED <<globalSharedObjects, groupSharedObjects>>

\* case 'sync' of handleCommand, for a command that arrived on transport s.
handleSync(s, c) ==
    /\ CASE c.scope = "GLOBAL" -> setGlobalSharedObject(c)
         [] c.scope = "GROUP"  -> setGroupSharedObject(c)
         [] c.scope = "CLIENT" -> setClientSharedObject(c)
         [] OTHER -> UNCHANGED <<globalSharedObjects, groupSharedObjects,
                                 clientSharedObjects>>
    /\ last' = Out("sync", s, c, "none",
                   IF c.scope \in {"GLOBAL", "GROUP", "CLIENT"} /\ objAt(syncSlot(c)).exists
                   THEN setPropertiesCalls(objAt(syncSlot(c)), c.values)
                   ELSE <<>>,
                   <<>>, 0, FALSE)
    /\ UNCHANGED <<socketId, online, handledClose, autoReconnect, sockets, socket,
                   timers, listenerVars, rmiVars, everHandlers, onMessageListeners, subscriptions, subCount,
                   disconnectPending>>

----------------------------------------------------------------------------
(* RMI: functions the peer calls                                           *)

\* io.functions[f] = fn, where calling fn does b.
SetFunction(f, b) ==
    /\ rmiFunctions' = [rmiFunctions EXCEPT ![f] = b]
    /\ last' = Out("functions", 0, [name |-> f, does |-> b], "none", <<>>, <<>>, 0, FALSE)
    /\ UNCHANGED <<socketId, online, handledClose, autoReconnect, sockets, socket,
                   timers, listenerVars, onMessageListeners, subscriptions, subCount,
                   globalSharedObjects, groupSharedObjects, clientSharedObjects,
                   everHandlers, deferred, callables, promises, rmiResultCallbacks,
                   disconnectPending>>

\* command.name in this.functions: own and inherited properties alike.
functionIn(n) == rmiFunctions[n] # NoFunction \/ n \in InheritedNames

\* What calling this.functions[n] does; the inherited toString returns a string.
functionDoes(n) == IF rmiFunctions[n] # NoFunction THEN rmiFunctions[n] ELSE "value"

\* The value a local function returns or its Promise resolves with.
functionResult(n) == IF rmiFunctions[n] # NoFunction THEN "r1" ELSE "[object Object]"

\* sendRmiResultCommand(result, error, id): the frames handed to the transport.
rmiResultFrames(result, error, id) ==
    sendCommandFrames("rmi-result", [id |-> id, result |-> result, error |-> error])

\* case 'rmi' of handleCommand, for a command that arrived on transport s.
handleRMICommand(s, c) ==
    /\ IF functionIn(c.name)
       THEN /\ functionDoes(c.name) = "promise" => Len(deferred) < MaxDeferred
            /\ deferred' = IF functionDoes(c.name) = "promise"
                           THEN Append(deferred, [id |-> c.id, name |-> c.name])
                           ELSE deferred
            /\ last' = Out("rmi", s, c,
                           IF functionDoes(c.name) = "throw" THEN "throw" ELSE "none",
                           <<[cb |-> c.name, arg |-> c.args]>>,
                           IF functionDoes(c.name) = "value"
                           THEN rmiResultFrames(functionResult(c.name), NULL, c.id)
                           ELSE <<>>,
                           0, FALSE)
       ELSE /\ deferred' = deferred
            /\ last' = Out("rmi", s, c, "none", <<>>,
                           rmiResultFrames(NULL, "undefined", c.id), 0, FALSE)
    /\ UNCHANGED <<socketId, online, handledClose, autoReconnect, sockets, socket,
                   timers, listenerVars, onMessageListeners, subscriptions, subCount,
                   globalSharedObjects, groupSharedObjects, clientSharedObjects,
                   everHandlers, rmiFunctions, callables, promises, rmiResultCallbacks,
                   disconnectPending>>

Remove(seq, i) == SubSeq(seq, 1, i - 1) \o SubSeq(seq, i + 1, Len(seq))

\* The error the catch callback reports.
rejectionError == "function error"

\* The Promise a local function returned resolves: the then callback runs.
PromiseResolve(i) ==
    /\ deferred' = Remove(deferred, i)
    /\ last' = Out("resolved", socket, deferred[i], "none", <<>>,
                   rmiResultFrames(functionResult(deferred[i].name), NULL, deferred[i].id),
                   0, FALSE)
    /\ UNCHANGED <<socketId, online, handledClose, autoReconnect, sockets, socket,
                   timers, listenerVars, onMessageListeners, subscriptions, subCount,
                   globalSharedObjects, groupSharedObjects, clientSharedObjects,
                   everHandlers, rmiFunctions, callables, promises, rmiResultCallbacks,
                   disconnectPending>>

\* The Promise a local function returned rejects: the catch callback runs.
PromiseReject(i) ==
    /\ deferred' = Remove(deferred, i)
    /\ last' = Out("rejected", socket, deferred[i], "none", <<>>,
                   rmiResultFrames(NULL, rejectionError, deferred[i].id), 0, FALSE)
    /\ UNCHANGED <<socketId, online, handledClose, autoReconnect, sockets, socket,
                   timers, listenerVars, onMessageListeners, subscriptions, subCount,
                   globalSharedObjects, groupSharedObjects, clientSharedObjects,
                   everHandlers, rmiFunctions, callables, promises, rmiResultCallbacks,
                   disconnectPending>>

----------------------------------------------------------------------------
(* RMI: functions of the peer                                              *)

\* generateRMIRequestUID(): the k-th identifier generated.
generateRMIRequestUID == Len(callables) + 1

\* A property read io.remote[n]: onGetRemoteMethod generates an id and returns
\* a function closed over it.
GetRemote(n) ==
    /\ Len(callables) < MaxCallables
    /\ callables' = Append(callables, [name |-> n, id |-> generateRMIRequestUID])
    /\ last' = Out("remote", 0, n, [callable |-> Len(callables')], <<>>, <<>>, 0, FALSE)
    /\ UNCHANGED <<socketId, online, handledClose, autoReconnect, sockets, socket,
                   timers, listenerVars, onMessageListeners, subscriptions, subCount,
                   globalSharedObjects, groupSharedObjects, clientSharedObjects,
                   everHandlers, rmiFunctions, deferred, promises, rmiResultCallbacks,
                   disconnectPending>>

\* new Promise(...): pending, and settled by no resolve or reject call yet.
NewPromise(id) == [id |-> id, state |-> "pending", value |-> NULL, settles |-> 0]

\* The application calls the function a property read returned, callables[k],
\* with one argument: the rmi command is sent, then the Promise is created and
\* its [resolve, reject] pair stored under the function's id.
CallRemote(k, a) ==
    /\ Len(promises) < MaxPromises
    /\ promises' = Append(promises, NewPromise(callables[k].id))
    /\ rmiResultCallbacks' = [rmiResultCallbacks EXCEPT
                                 ![callables[k].id] = [has |-> TRUE,
                                                       promise |-> Len(promises) + 1]]
    /\ last' = Out("call", socket, [callable |-> k, args |-> <<a>>],
                   [promise |-> Len(promises) + 1], <<>>,
                   sendCommandFrames("rmi", [id |-> callables[k].id,
                                             name |-> callables[k].name,
                                             args |-> <<a>>]),
                   0, FALSE)
    /\ UNCHANGED <<socketId, online, handledClose, autoReconnect, sockets, socket,
                   timers, listenerVars, onMessageListeners, subscriptions, subCount,
                   globalSharedObjects, groupSharedObjects, clientSharedObjects,
                   everHandlers, rmiFunctions, deferred, callables, disconnectPending>>

\* resolve(value) or reject(value) of a Promise: only a pending one changes.
Settle(promise, state, value) ==
    IF promise.state = "pending"
    THEN [promise EXCEPT !.state = state, !.value = value, !.settles = @ + 1]
    ELSE [promise EXCEPT !.settles = @ + 1]

\* if (command.error): null and the empty string are falsy.
rmiResultIsError(c) == c.error \notin {NULL, ""}

\* this.rmiResultCallbacks.delete(command.id)
rmiResultDelete(table, id) == [table EXCEPT ![id] = NoEntry]

\* case 'rmi-result' of handleCommand, for a command that arrived on transport
\* s.  With no entry under command.id, callbacks is undefined and indexing it
\* raises a TypeError.
handleRmiResultCommand(s, c) ==
    /\ IF rmiResultCallbacks[c.id].has
       THEN LET p == rmiResultCallbacks[c.id].promise IN
            /\ promises' = [promises EXCEPT
                               ![p] = IF rmiResultIsError(c)
                                      THEN Settle(@, "rejected", c.error)
                                      ELSE Settle(@, "resolved", c.result)]
            /\ rmiResultCallbacks' = rmiResultDelete(rmiResultCallbacks, c.id)
            /\ last' = Out("rmi-result", s, c, "none",
                           <<[cb |-> IF rmiResultIsError(c) THEN "reject" ELSE "resolve",
                              arg |-> [promise |-> p]]>>,
                           <<>>, 0, FALSE)
       ELSE /\ UNCHANGED <<promises, rmiResultCallbacks>>
            /\ last' = Out("rmi-result", s, c, "throw", <<>>, <<>>, 0, FALSE)
    /\ UNCHANGED <<socketId, online, handledClose, autoReconnect, sockets, socket,
                   timers, listenerVars, onMessageListeners, subscriptions, subCount,
                   globalSharedObjects, groupSharedObjects, clientSharedObjects,
                   everHandlers, rmiFunctions, deferred, callables, disconnectPending>>

----------------------------------------------------------------------------
(* Command router                                                          *)

unhandledCalls_Listeners(c) == listenerCalls(c)

\* The switch of handleCommand has no default case.
unhandledCalls(c) == <<>>

\* A command whose type matches no case of the switch: nothing runs.
Unhandled(s, c) ==
    /\ last' = Out("unhandled", s, c, "none", unhandledCalls(c), <<>>, 0, FALSE)
    /\ UNCHANGED <<progVars, subCount, everHandlers, disconnectPending>>

\* handleCommand(command): the switch on command.type.
handleCommand(s, c) ==
    CASE c.type = "getSocketId" -> RecvGetSocketId(s)
      [] c.type = "setSocketId" -> RecvSetSocketId(s, c.socketId)
      [] c.type = "event"       -> handleEvent(s, c)
      [] c.type = "sync"        -> handleSync(s, c)
      [] c.type = "rmi"         -> handleRMICommand(s, c)
      [] c.type = "rmi-result"  -> handleRmiResultCommand(s, c)
      [] OTHER                  -> Unhandled(s, c)

\* The else branch of handleOnMessage: every listener gets the document.
Forward(s, doc) ==
    /\ last' = Out("message", s, doc, "none", listenerCalls(doc), <<>>, 0, FALSE)
    /\ UNCHANGED <<progVars, subCount, everHandlers, disconnectPending>>

\* parseMessage gave a falsy value: handleOnMessage does nothing.
Dropped(s, raw) ==
    /\ last' = Out("dropped", s, raw, "none", <<>>, <<>>, 0, FALSE)
    /\ UNCHANGED <<progVars, subCount, everHandlers, disconnectPending>>

\* The 'message' event of transport s carrying the text raw, and the handler
\* handleOnMessage wired to it.
handleOnMessage(s, raw) ==
    /\ Receiving(s)
    /\ LET parsedMessage == parseMessage(raw) IN
       IF Truthy(parsedMessage)
       THEN IF parsedMessage.command /\ parsedMessage.type # NULL
            THEN handleCommand(s, parsedMessage)
            ELSE Forward(s, parsedMessage)
       ELSE Dropped(s, raw)

----------------------------------------------------------------------------
(* The router and the plain-message listeners, over one transport's life.  *)

RouterFrames ==
    {Garbled("%"), Garbled("{"),
     Encoded(JsonFalse), Encoded(JsonZero), Encoded(JsonString("m1")),
     Encoded(PlainDoc("m1")), Encoded(PlainDoc("m2")),
     Encoded([PlainDoc("m1") EXCEPT !.command = TRUE]),
     Encoded([PlainDoc("m1") EXCEPT !.type = "event"]),
     Encoded(CommandDoc("getSocketId")), Encoded(SetSocketIdDoc("s1")),
     Encoded(EventDoc("e1", "d1")),
     Encoded(SyncDoc("GLOBAL", NULL, "n1", ("k1" :> "v1"))),
     Encoded(CommandDoc("noSuchType"))}

NextRouter ==
    \/ Disconnect
    \/ \E s \in 1..Len(sockets) : TransportOpen(s)
    \/ \E s \in 1..Len(sockets) : TransportClose(s)
    \/ \E l \in Listeners : OnMessage(l)
    \/ \E s \in 1..Len(sockets), raw \in RouterFrames : handleOnMessage(s, raw)

SpecRouter == Init /\ [][NextRouter]_vars

----------------------------------------------------------------------------
(* Publish/subscribe, over one transport's life.                           *)

EventFrames == {Encoded(EventDoc(e, d)) : e \in Events \cup {NULL}, d \in Payloads}

NextPubSub ==
    \/ Disconnect
    \/ \E s \in 1..Len(sockets) : TransportOpen(s)
    \/ \E s \in 1..Len(sockets) : TransportClose(s)
    \/ \E e \in Events, c \in Callbacks : Subscribe(e, c)
    \/ \E e \in Events, c \in Callbacks : UnSubscribe(e, c)
    \/ \E e \in Events, d \in Payloads : Publish(e, d)
    \/ \E s \in 1..Len(sockets), raw \in EventFrames : handleOnMessage(s, raw)

SpecPubSub == Init /\ [][NextPubSub]_vars

----------------------------------------------------------------------------
(* The shared-state store, over one transport's life.                      *)

\* The property writes the application makes.
Writes == {<<"k1", "v1">>, <<"k1", "v2">>, <<"k2", "v1">>}

SyncFrames ==
    {Encoded(SyncDoc(slot[1], slot[2], slot[3], b)) : slot \in Slots, b \in Batches}
        \cup {Encoded(SyncDoc("PRIVATE", NULL, "n1", ("k1" :> "v1")))}

NextShared ==
    \/ \E s \in 1..Len(sockets) : TransportOpen(s)
    \/ \E s \in 1..Len(sockets) : TransportClose(s)
    \/ \E n \in Names : Shared(n)
    \/ \E g \in Groups, n \in Names : GroupShared(g, n)
    \/ \E n \in Names : GlobalShared(n)
    \/ \E slot \in Slots, h \in Handlers : SetHandler(slot, h)
    \/ \E slot \in Slots, w \in Writes : Write(slot, w[1], w[2])
    \/ \E s \in 1..Len(sockets), raw \in SyncFrames : handleOnMessage(s, raw)

SpecShared == Init /\ [][NextShared]_vars

----------------------------------------------------------------------------
(* Change handlers of shared objects, over one transport's life.           *)

ChangeHandlers == {"h1", "h2"}
HandlerSlots == {<<"GLOBAL", NULL, "n1">>, <<"CLIENT", NULL, "n1">>}

HandlerFrames ==
    {Encoded(SyncDoc(slot[1], slot[2], slot[3], ("k1" :> "v2"))) : slot \in HandlerSlots}

NextHandlers ==
    \/ \E s \in 1..Len(sockets) : TransportOpen(s)
    \/ \E s \in 1..Len(sockets) : TransportClose(s)
    \/ \E n \in Names : Shared(n)
    \/ \E n \in Names : GlobalShared(n)
    \/ \E slot \in HandlerSlots, h \in ChangeHandlers : SetHandler(slot, h)
    \/ \E slot \in HandlerSlots : Write(slot, "k1", "v1")
    \/ \E s \in 1..Len(sockets), raw \in HandlerFrames : handleOnMessage(s, raw)

SpecHandlers == Init /\ [][NextHandlers]_vars

----------------------------------------------------------------------------
(* Functions the peer calls, over one transport's life.                    *)

PeerIds == {"p1", "p2"}

RmiFrames == {Encoded(RmiDoc(n, <<"a1">>, id)) : n \in FunctionNames, id \in PeerIds}

NextRmi ==
    \/ Disconnect
    \/ \E s \in 1..Len(sockets) : TransportOpen(s)
    \/ \E s \in 1..Len(sockets) : TransportClose(s)
    \/ \E b \in Behaviours : SetFunction("fa", b)
    \/ \E i \in 1..Len(deferred) : PromiseResolve(i)
    \/ \E i \in 1..Len(deferred) : PromiseReject(i)
    \/ \E s \in 1..Len(sockets), raw \in RmiFrames : handleOnMessage(s, raw)

SpecRmi == Init /\ [][NextRmi]_vars

----------------------------------------------------------------------------
(* Functions of the peer, over transports that drop and are reopened by    *)
(* the reconnect timer.                                                    *)

RemoteNames == {"ra"}

RmiResultFrames ==
    {Encoded(RmiResultDoc(id, "r1", NULL)) : id \in CallIds}
        \cup {Encoded(RmiResultDoc(id, NULL, "function error")) : id \in CallIds}

NextRemote ==
    \/ Disconnect
    \/ TimerFire
    \/ \E s \in 1..Len(sockets) : TransportOpen(s)
    \/ \E s \in 1..Len(sockets) : TransportClose(s)
    \/ \E n \in RemoteNames : GetRemote(n)
    \/ \E k \in 1..Len(callables), a \in Arguments : CallRemote(k, a)
    \/ \E s \in 1..Len(sockets), raw \in RmiResultFrames : handleOnMessage(s, raw)

SpecRemote == Init /\ [][NextRemote]_vars

----------------------------------------------------------------------------
(* Reconnection: with autoReconnect on and disconnect() never called, a    *)
(* peer that refuses or drops transports for a while and then accepts.     *)
(* The peer closes a transport only while the client may still open        *)
(* another one, so the last transport of a run is one the peer accepts.    *)

PeerClose(s) == CanOpen /\ TransportClose(s)

\* The peer accepts the current transport.
PeerAccept == \E s \in 1..Len(sockets) : s = socket /\ TransportOpen(s)

\* The peer asks the client, not yet online, for its socket id.
PeerGetSocketId ==
    \E s \in 1..Len(sockets) : s = socket /\ ~online /\ RecvGetSocketId(s)

\* The peer assigns a socket id to a client that reported none.
PeerSetSocketId ==
    \E s \in 1..Len(sockets), id \in {"s1"} :
        s = socket /\ ~online /\ socketId = NULL /\ RecvSetSocketId(s, id)

RetrySlot == <<"CLIENT", NULL, "n1">>

\* Constructed with autoReconnect on (the default).
InitRetry == Init /\ autoReconnect

NextRetry ==
    \/ Connect
    \/ TimerFire
    \/ PeerAccept
    \/ \E s \in 1..Len(sockets) : PeerClose(s)
    \/ PeerGetSocketId
    \/ PeerSetSocketId
    \/ Shared("n1")
    \/ \E w \in Writes : Write(RetrySlot, w[1], w[2])

\* Timers fire, and the peer accepts the current transport and completes
\* the handshake on it.
SpecRetry ==
    /\ InitRetry
    /\ [][NextRetry]_vars
    /\ WF_vars(TimerFire)
    /\ WF_vars(PeerAccept)
    /\ WF_vars(PeerGetSocketId)
    /\ WF_vars(PeerSetSocketId)

----------------------------------------------------------------------------
(* disconnect() among drops and reconnect timers; the application never    *)
(* calls connect() itself.                                                 *)

NextDisconnect ==
    \/ Disconnect
    \/ OnClose
    \/ OnDisconnect
    \/ TimerFire
    \/ \E s \in 1..Len(sockets) : TransportOpen(s)
    \/ \E s \in 1..Len(sockets) : TransportClose(s)
    \/ \E s \in 1..Len(sockets) : RecvGetSocketId(s)
    \/ \E s \in 1..Len(sockets), id \in SocketIds : RecvSetSocketId(s, id)

SpecDisconnect == Init /\ [][NextDisconnect]_vars

----------------------------------------------------------------------------
(* Connection lifecycle properties                                         *)

CloseCalls == IF onCloseListener THEN <<"close">> ELSE <<>>
DisconnectCalls == IF onDisconnectListener THEN <<"disconnect">> ELSE <<>>

\* C1: with autoReconnect = true, a close event not preceded by disconnect()
\* fires the disconnect callback (never the close callback), opens no transport
\* itself and schedules one reconnect timer; the timer, firing while the client
\* is not online, opens one new transport, which becomes the current one; and
\* the client opens a transport in no step other than an application connect()
\* or a timer firing, so none is opened between the close event and the timer.
C1_DropSchedulesReconnect ==
    [][ /\ (last'.op = "close" /\ autoReconnect /\ ~disconnectPending) =>
              /\ last'.calls = DisconnectCalls
              /\ last'.sched
              /\ timers' = timers + 1
              /\ Len(sockets') = Len(sockets)
        /\ (last'.op = "timer" /\ ~online) =>
              /\ Len(sockets') = Len(sockets) + 1
              /\ socket' = Len(sockets')
              /\ sockets'[socket'] = "CONNECTING"
              /\ last'.opened = 1
        /\ Len(sockets') # Len(sockets) => last'.op \in {"connect", "timer"}
      ]_vars

\* A drop was followed by its timer firing, which opened a transport.
C1_Witness ==
    /\ autoReconnect
    /\ last.op = "timer"
    /\ last.opened = 1
    /\ sockets[socket] = "CONNECTING"

\* C2: a reconnect timer that fires while online is true opens no transport
\* and changes nothing the program holds (only the timer itself is consumed).
C2_TimerNoOpWhenOnline ==
    [][ (last'.op = "timer" /\ online) =>
            /\ last'.opened = 0
            /\ timers' = timers - 1
            /\ UNCHANGED <<socketId, online, handledClose, autoReconnect, sockets,
                           socket, listenerVars>>
      ]_vars

\* A timer fired after the client had become online again.
C2_Witness ==
    /\ last.op = "timer"
    /\ online
    /\ last.opened = 0

\* C3: the first close event after a disconnect() call fires the close
\* callback, not the disconnect callback, and schedules no reconnect, whether
\* autoReconnect is set or not.
C3_IntentionalClose ==
    [][ (last'.op = "close" /\ disconnectPending) =>
            /\ last'.calls = CloseCalls
            /\ ~last'.sched
            /\ timers' = timers
            /\ Len(sockets') = Len(sockets)
      ]_vars

\* With autoReconnect set, a close event took the close-callback path.
C3_Witness ==
    /\ autoReconnect
    /\ last.op = "close"
    /\ last.calls = <<"close">>
    /\ ~last.sched

C5_ConnectIdempotentOnline ==
    [][ last'.op = "connect" =>
          /\ online =>
                /\ UNCHANGED progVars
                /\ last'.opened = 0
          /\ ~online =>
                /\ sockets' = Append(sockets, "CONNECTING")
                /\ socket' = Len(sockets')
                /\ last'.opened = 1
                /\ UNCHANGED <<socketId, online, handledClose, autoReconnect,
                               timers, listenerVars>>
      ]_vars

\* connect() was called while online and did nothing.
C5_Witness ==
    /\ last.op = "connect"
    /\ online
    /\ last.opened = 0
    /\ sockets[socket] = "OPEN"

----------------------------------------------------------------------------
(* Handshake and send primitives                                           *)

OpenCalls == IF onOpenListener THEN <<"open">> ELSE <<>>

\* C6: every inbound getSocketId makes the client hand exactly one
\* reportSocketId command carrying its current socketId (null when none) to
\* the transport, and invokes the open callback exactly when a socketId was
\* already held and an open callback is registered.
C6_ReportSocketIdSent ==
    last.op = "getSocketId" =>
        /\ Len(last.frames) = 1
        /\ last.frames[1].command
        /\ last.frames[1].type = "reportSocketId"
        /\ last.frames[1].data = socketId
        /\ last.calls = IF socketId # NULL /\ onOpenListener THEN <<"open">> ELSE <<>>

\* C7: an inbound setSocketId stores the identifier it carries, leaves the
\* client online and invokes the open callback.
C7_SetSocketId ==
    last.op = "setSocketId" =>
        /\ socketId = last.arg
        /\ online
        /\ last.calls = OpenCalls

\* A second identifier was assigned while an open callback was registered.
C7_Witness ==
    /\ last.op = "setSocketId"
    /\ last.arg = "s2"
    /\ socketId = "s2"
    /\ last.calls = <<"open">>

\* C8: send returns true and hands exactly one frame to the transport when
\* online, and returns false and hands over nothing when not online.
C8_SendFollowsOnline ==
    last.op = "send" =>
        IF online
        THEN last.ret = "true" /\ Len(last.frames) = 1
        ELSE last.ret = "false" /\ last.frames = <<>>

\* C9 as stated: sendCommand transmits only while online, and returns false
\* without transmitting when not online.
C9_SendCommandOnlineOnly ==
    last.op = "sendCommand" =>
        /\ last.frames # <<>> => online
        /\ ~online => last.ret = "false"

\* C9 as amended: sendCommand tags the frame command: true and does not
\* consult online; it hands the frame to the transport and returns true
\* exactly when the current transport is open, and returns false without
\* transmitting when there is no transport or it is not open.
C9_SendCommandIgnoresOnline ==
    /\ last.op = "sendCommand" =>
          IF socket # 0 /\ sockets[socket] = "OPEN"
          THEN /\ last.ret = "true"
               /\ last.frames = <<[sock |-> socket, command |-> TRUE,
                                   type |-> NULL, data |-> last.arg]>>
          ELSE /\ last.ret = "false"
               /\ last.frames = <<>>
    /\ last.op = "getSocketId" =>
          \A i \in 1..Len(last.frames) : last.frames[i].command

\* sendCommand transmitted while the client was not online.
C9_Witness ==
    /\ last.op = "sendCommand"
    /\ ~online
    /\ last.ret = "true"
    /\ Len(last.frames) = 1

\* C10: sendCommand never raises, whatever the transport's state (none opened
\* yet, connecting, closing, closed): it returns a boolean, and true only when
\* the frame was handed to the transport.
C10_SendCommandNeverThrows ==
    last.op = "sendCommand" =>
        /\ last.ret \in {"true", "false"}
        /\ last.ret = "true" <=> Len(last.frames) = 1
        /\ last.ret = "false" <=> last.frames = <<>>

\* sendCommand was called before any transport was opened and returned false.
C10_Witness ==
    /\ last.op = "sendCommand"
    /\ socket = 0
    /\ last.ret = "false"

----------------------------------------------------------------------------
(* Router properties                                                       *)

\* The document is a command for handleOnMessage: both markers are truthy.
IsCommand(doc) == doc.command /\ doc.type # NULL

\* C11: every frame that decoded is routed to exactly one destination: a plain
\* message goes unchanged to every registered listener once, in registration
\* order; a command goes to the one handler its type names and to no listener.
C11_DecodedFrameRoutedOnce ==
    /\ last.op = "dropped" => ~last.arg.decodable
    /\ last.op = "message" =>
          /\ ~IsCommand(last.arg)
          /\ Len(last.calls) = Len(onMessageListeners)
          /\ \A i \in 1..Len(last.calls) :
                last.calls[i] = [cb |-> onMessageListeners[i], arg |-> last.arg]
    /\ last.op \in {"getSocketId", "setSocketId"} => last.calls \in {<<>>, <<"open">>}
    /\ last.op \in {"event", "sync", "unhandled"} =>
          /\ IsCommand(last.arg)
          /\ last.op # "unhandled" => last.arg.type = last.op
          /\ \A i \in 1..Len(last.calls) : last.calls[i].cb \notin Listeners

\* C12: a frame that does not decode is parsed to the invalid result; the
\* handler returns normally, invokes no listener and no command handler, sends
\* nothing and leaves everything the client holds as it was.
C12_UndecodableFrameDropped ==
    /\ \A raw \in RouterFrames : ~raw.decodable => parseMessage(raw) = JsonFalse
    /\ [][ \A s \in 1..Len(sockets), raw \in RouterFrames :
              (~raw.decodable /\ handleOnMessage(s, raw)) =>
                  /\ last'.op = "dropped"
                  /\ last'.ret = "none"
                  /\ last'.calls = <<>>
                  /\ last'.frames = <<>>
                  /\ UNCHANGED progVars
         ]_vars

\* A frame that does not decode arrived while two listeners were registered
\* and the client held a socket id.
C12_Witness ==
    /\ last.op = "dropped"
    /\ ~last.arg.decodable
    /\ Len(onMessageListeners) = 2
    /\ online

----------------------------------------------------------------------------
(* Publish/subscribe properties                                            *)

\* How many of the calls a step made went to callback c.
CallsTo(calls, c) == Cardinality({i \in 1..Len(calls) : calls[i].cb = c})

C14_UnSubscribeRemovesOnlyThat ==
    [][ /\ last'.op = "unSubscribe" =>
              LET e == last'.arg.event
                  c == last'.arg.callback
              IN /\ last'.ret = "none"
                 /\ last'.calls = <<>>
                 /\ \A e2 \in Events \ {e} : subscriptions'[e2] = subscriptions[e2]
                 /\ IF subscriptions[e].has /\ c \in Range(subscriptions[e].set)
                    THEN /\ subscriptions'[e].has
                         /\ subscriptions'[e].set =
                                SelectSeq(subscriptions[e].set, LAMBDA x : x # c)
                    ELSE subscriptions' = subscriptions
                 /\ UNCHANGED <<socketId, online, handledClose, autoReconnect, sockets,
                                socket, timers, listenerVars, onMessageListeners,
                                globalSharedObjects, groupSharedObjects,
                                clientSharedObjects>>
        /\ (last'.op = "event" /\ last'.arg.event \in Events) =>
              \A c \in Callbacks :
                  subCount[last'.arg.event][c] = 0 => CallsTo(last'.calls, c) = 0
      ]_vars

\* An e1 event arrived after the only callback of e1 had been removed (its set
\* is left empty), while c1 stayed subscribed to e2.
C14_Witness ==
    /\ last.op = "event"
    /\ last.arg.event = "e1"
    /\ subscriptions["e1"].has
    /\ subscriptions["e1"].set = <<>>
    /\ subscriptions["e2"].set = <<"c1">>
    /\ last.calls = <<>>

----------------------------------------------------------------------------
(* Shared-state properties                                                 *)

Accessors == {"shared", "groupShared", "globalShared"}

\* The SharedObject the registries hold for a slot after the step.
objAtNext(slot) ==
    CASE slot[1] = "GLOBAL" -> globalSharedObjects'[slot[3]]
      [] slot[1] = "GROUP"  -> groupSharedObjects'[slot[2]].objs[slot[3]]
      [] slot[1] = "CLIENT" -> clientSharedObjects'[slot[3]]

\* C16: a property write on the view of a GLOBAL or GROUP shared object is
\* rejected: the set trap returns false, the mirror keeps its data, the change
\* handler is not invoked and no sync command is sent.
C16_ReadOnlyWriteRejected ==
    [][ (last'.op = "set" /\ last'.arg.slot[1] \in {"GLOBAL", "GROUP"}) =>
            /\ last'.ret = "false"
            /\ last'.calls = <<>>
            /\ last'.frames = <<>>
            /\ UNCHANGED progVars
      ]_vars

\* A write on a GROUP view that has a change handler, while the transport
\* is open.
C16_Witness ==
    /\ last.op = "set"
    /\ last.arg.slot[1] = "GROUP"
    /\ objAt(last.arg.slot).onChangeHandler = "h1"
    /\ SocketSendOk
    /\ last.ret = "false"

\* C17: a write of key k to value v on a CLIENT view updates the mirror so
\* that reading k gives v, invokes the change handler, if any, exactly once
\* with {values: {k: v}, by: 'client'}, and emits exactly one sync command
\* with scope CLIENT, the object's name, k and v.
C17_ClientWriteSyncs ==
    (last.op = "set" /\ last.arg.slot[1] = "CLIENT") =>
        LET obj == objAt(last.arg.slot)
            k == last.arg.key
            v == last.arg.value
        IN /\ onGet(obj, k) = v
           /\ last.calls =
                 IF obj.onChangeHandler # NULL
                 THEN <<[cb |-> obj.onChangeHandler,
                         arg |-> [values |-> (k :> v), by |-> "client"]]>>
                 ELSE <<>>
           /\ Len(last.frames) = 1
           /\ last.frames[1].command
           /\ last.frames[1].type = "sync"
           /\ last.frames[1].data =
                 [name |-> last.arg.slot[3], scope |-> "CLIENT", key |-> k, value |-> v]

\* C18: an inbound sync command naming an object that does not exist yet
\* creates it and applies every key of its values batch, so that reading each
\* of those keys gives the synced value.
C18_FirstSyncApplied ==
    [][ (/\ last'.op = "sync"
         /\ last'.arg.scope \in {"GLOBAL", "GROUP", "CLIENT"}
         /\ ~objAt(syncSlot(last'.arg)).exists) =>
            /\ objAtNext(syncSlot(last'.arg)).exists
            /\ \A k \in DOMAIN last'.arg.values :
                  onGet(objAtNext(syncSlot(last'.arg)), k) = last'.arg.values[k]
      ]_vars

\* C19: an inbound sync command for an object that exists changes that object
\* only: the keys of its batch take the batch's values, every other key and
\* every other object stay as they were, and the object's change handler, if
\* any, is invoked exactly once with {values, by: 'server'}.
C19_SyncOverwritesBatchKeys ==
    [][ (/\ last'.op = "sync"
         /\ last'.arg.scope \in {"GLOBAL", "GROUP", "CLIENT"}
         /\ objAt(syncSlot(last'.arg)).exists) =>
            LET slot == syncSlot(last'.arg)
                obj == objAt(slot)
                values == last'.arg.values
            IN /\ \A other \in Slots \ {slot} : objAtNext(other) = objAt(other)
               /\ objAtNext(slot) =
                     [obj EXCEPT !.data = [k \in Keys |-> IF k \in DOMAIN values
                                                          THEN values[k]
                                                          ELSE obj.data[k]]]
               /\ last'.calls =
                     IF obj.onChangeHandler # NULL
                     THEN <<[cb |-> obj.onChangeHandler,
                             arg |-> [values |-> values, by |-> "server"]]>>
                     ELSE <<>>
               /\ last'.frames = <<>>
               /\ UNCHANGED <<socketId, online, handledClose, autoReconnect, sockets,
                              socket, timers, listenerVars, onMessageListeners,
                              subscriptions>>
      ]_vars

\* A GROUP sync of k1 alone reached an object with a handler; its k2 and the
\* GLOBAL object of the same name kept their values.
C19_Witness ==
    /\ last.op = "sync"
    /\ last.arg.scope = "GROUP"
    /\ last.arg.values = ("k1" :> "v2")
    /\ last.calls = <<[cb |-> "h1", arg |-> [values |-> ("k1" :> "v2"), by |-> "server"]]>>
    /\ objAt(<<"GROUP", "g1", "n1">>).data = [k1 |-> "v2", k2 |-> "v1"]
    /\ objAt(<<"GLOBAL", NULL, "n1">>).data = [k1 |-> "v1", k2 |-> ABSENT]

\* C20: there is one SharedObject per (scope, group, name): a slot's object is
\* constructed once and never replaced, an accessor returns the object the
\* registry holds and leaves an existing one as it is, and its name, scope and
\* writability never change.
C20_OneObjectPerSlot ==
    /\ \A slot \in Slots : objAt(slot).gen <= 1 /\ (objAt(slot).exists <=> objAt(slot).gen = 1)
    /\ last.op \in Accessors =>
          /\ objAt(last.arg).exists
          /\ last.ret = View(last.arg, objAt(last.arg))
    /\ [][ \A slot \in Slots :
              objAt(slot).exists =>
                  /\ objAtNext(slot).exists
                  /\ objAtNext(slot).gen = objAt(slot).gen
                  /\ objAtNext(slot).name = slot[3]
                  /\ objAtNext(slot).type = slot[1]
                  /\ objAtNext(slot).readOnly = (slot[1] # "CLIENT")
                  /\ last'.op \in Accessors => objAtNext(slot) = objAt(slot)
         ]_vars

\* shared(name) returned the object that already held synced data and a
\* change handler.
C20_Witness ==
    /\ last.op = "shared"
    /\ objAt(last.arg).gen = 1
    /\ objAt(last.arg).data = [k1 |-> "v2", k2 |-> "v1"]
    /\ objAt(last.arg).onChangeHandler = "h1"

\* C21: calling a view with a function makes it the object's only change
\* handler: every later change of that object (an accepted write, an inbound
\* sync) invokes the handler registered last exactly once and no other one.
C21_LatestHandlerOnly ==
    /\ last.op = "apply" =>
          objAt(last.arg.slot).onChangeHandler = last.arg.handler
    /\ (\/ last.op = "set" /\ last.ret = "true"
        \/ last.op = "sync" /\ last.arg.scope \in {"GLOBAL", "GROUP", "CLIENT"}) =>
          LET slot == IF last.op = "set" THEN last.arg.slot ELSE syncSlot(last.arg)
              h == objAt(slot).onChangeHandler
          IN /\ Len(last.calls) = (IF h # NULL THEN 1 ELSE 0)
             /\ \A i \in 1..Len(last.calls) : last.calls[i].cb = h

\* h1 and then h2 were registered on the CLIENT object, and a sync of it
\* invoked h2 alone.
C21_Witness ==
    /\ last.op = "sync"
    /\ last.arg.scope = "CLIENT"
    /\ everHandlers[<<"CLIENT", NULL, "n1">>] = {"h1", "h2"}
    /\ objAt(<<"CLIENT", NULL, "n1">>).onChangeHandler = "h2"
    /\ Len(last.calls) = 1
    /\ last.calls[1].cb = "h2"

----------------------------------------------------------------------------
(* RMI properties                                                          *)

\* The step handed the transport exactly one rmi-result command with this id.
OneResult(id) ==
    /\ Len(last.frames) = 1
    /\ last.frames[1].command
    /\ last.frames[1].type = "rmi-result"
    /\ last.frames[1].data.id = id

\* C22: every inbound rmi command is answered by exactly one rmi-result with
\* its id: at once when the function is missing, returns a value or raises,
\* and when its Promise resolves or rejects otherwise.
C22_OneResultPerCall ==
    /\ (last.op = "rmi" /\ ~(functionIn(last.arg.name)
                              /\ functionDoes(last.arg.name) = "promise")) =>
          OneResult(last.arg.id)
    /\ last.op = "rmi" => Len(last.frames) <= 1
    /\ last.op \in {"resolved", "rejected"} => OneResult(last.arg.id)

\* C23: an inbound rmi command naming a function the application did not
\* register invokes no local function and is answered by exactly one
\* rmi-result with error 'undefined' and the command's id.
C23_UnregisteredGivesUndefined ==
    (last.op = "rmi" /\ rmiFunctions[last.arg.name] = NoFunction) =>
        /\ last.calls = <<>>
        /\ OneResult(last.arg.id)
        /\ last.frames[1].data.error = "undefined"

\* C24: when the function an inbound rmi command names raises, or its Promise
\* rejects, the handler does not raise and an rmi-result with error
\* 'function error' is sent.
C24_FailureTranslated ==
    /\ (/\ last.op = "rmi"
        /\ functionIn(last.arg.name)
        /\ functionDoes(last.arg.name) = "throw") =>
          /\ last.ret # "throw"
          /\ OneResult(last.arg.id)
          /\ last.frames[1].data.error = "function error"
    /\ last.op = "rejected" =>
          /\ last.ret # "throw"
          /\ OneResult(last.arg.id)
          /\ last.frames[1].data.error = "function error"

\* The calls still awaiting a result.
Outstanding == {p \in 1..Len(promises) : promises[p].state = "pending"}

\* C25: every outbound remote call has an identifier of its own: no two calls
\* awaiting a result share an identifier, two calls through the function one
\* property read returned included, and every call awaiting a result keeps its
\* entry of the pending table.
C25_FreshIdPerCall ==
    /\ \A p, q \in Outstanding : promises[p].id = promises[q].id => p = q
    /\ \A p \in Outstanding :
          /\ rmiResultCallbacks[promises[p].id].has
          /\ rmiResultCallbacks[promises[p].id].promise = p

\* C26: an inbound rmi-result whose id is that of a call awaiting a result
\* rejects that call's value with the error when the error is set and
\* resolves it with the result otherwise, settles no other call, and removes
\* exactly that id's entry from the pending table.
C26_MatchingResultSettles ==
    [][last'.op = "rmi-result" =>
          LET c == last'.arg IN
          /\ \A p \in Outstanding :
                IF promises[p].id = c.id
                THEN /\ promises'[p].state =
                           IF c.error # NULL THEN "rejected" ELSE "resolved"
                     /\ promises'[p].value =
                           IF c.error # NULL THEN c.error ELSE c.result
                ELSE promises'[p] = promises[p]
          /\ \A id \in CallIds :
                rmiResultCallbacks'[id] =
                    IF id = c.id THEN NoEntry ELSE rmiResultCallbacks[id]]_vars

\* The ids an rmi-result has already settled a call of.
Consumed == {promises[p].id : p \in (1..Len(promises)) \ Outstanding}

\* C27: a call is settled at most once, and an rmi-result for an id already
\* consumed resolves or rejects nothing and leaves the pending table as it
\* was.
C27_SettledAtMostOnce ==
    [][/\ \A p \in 1..Len(promises') : promises'[p].settles <= 1
       /\ (last'.op = "rmi-result" /\ last'.arg.id \in Consumed) =>
             /\ promises' = promises
             /\ rmiResultCallbacks' = rmiResultCallbacks
             /\ last'.calls = <<>>]_vars

\* The command types handleCommand has a case for.
CommandTypes == {"getSocketId", "setSocketId", "event", "sync", "rmi", "rmi-result"}

\* C28: an inbound command whose type is none of getSocketId, setSocketId,
\* event, sync, rmi and rmi-result is ignored: no callback or listener runs,
\* nothing is sent, and every program variable keeps its value.
C28_UnknownTypeIgnored ==
    [][(/\ last'.op \in {"unhandled", "message", "dropped"}
        /\ last'.arg \in {parseMessage(raw) : raw \in RouterFrames}
        /\ IsCommand(last'.arg)
        /\ last'.arg.type \notin CommandTypes) =>
          /\ last'.op = "unhandled"
          /\ last'.ret = "none"
          /\ last'.calls = <<>>
          /\ last'.frames = <<>>
          /\ UNCHANGED progVars]_vars

\* A command of an unknown type arrived while two listeners were registered,
\* the client held a socket id and a mirror of a global shared object existed.
C28_Witness ==
    /\ last.op = "unhandled"
    /\ last.arg.type \notin CommandTypes
    /\ Len(onMessageListeners) = 2
    /\ online
    /\ socketId # NULL
    /\ globalSharedObjects["n1"].exists

\* C29: an inbound rmi-result whose id has no entry in the pending table is a
\* no-op: it completes without raising, settles nothing, and leaves the table
\* and every other program variable unchanged.
C29_UnknownIdIsNoOp ==
    [][(last'.op = "rmi-result" /\ ~rmiResultCallbacks[last'.arg.id].has) =>
          /\ last'.ret # "throw"
          /\ last'.calls = <<>>
          /\ UNCHANGED progVars]_vars

\* C30: a pending call with no matching result stays pending: its entry
\* leaves the pending table and its value is settled only by an inbound
\* rmi-result carrying its id; a transport close, disconnect(), a reconnect
\* and every event other than a remote call or an rmi-result leave the
\* pending table unchanged.
C30_PendingUntilResult ==
    [][/\ \A p \in Outstanding :
             (\/ promises'[p] # promises[p]
              \/ /\ rmiResultCallbacks[promises[p].id] = [has |-> TRUE, promise |-> p]
                 /\ rmiResultCallbacks'[promises[p].id] # [has |-> TRUE, promise |-> p])
                 => (last'.op = "rmi-result" /\ last'.arg.id = promises[p].id)
       /\ last'.op \notin {"rmi-result", "call"} =>
             UNCHANGED <<rmiResultCallbacks, promises>>]_vars

----------------------------------------------------------------------------
(* Properties across the layers                                            *)

\* The transports that are connecting or open.
LiveTransports == {s \in 1..Len(sockets) : sockets[s] \in {"CONNECTING", "OPEN"}}

\* C31: at most one transport the client opened is live, and it is the
\* current one, the one send and sendCommand use (so connect(), called by the
\* application or by the reconnect timer while an earlier attempt is still
\* connecting, never leaves two transports alive); and the close event of a
\* transport that is not the current one never turns online off.
C31_OneLiveTransport ==
    /\ [](LiveTransports \subseteq {socket})
    /\ [][(last'.op = "close" /\ last'.sock # socket /\ online) => online']_vars

\* C36: a pending-call entry exists only for a remote call whose rmi command
\* was handed to the transport: a call issued while no transport is open
\* (sendCommand returns false) leaves no entry under its id.
C36_EntryOnlyWhenSent ==
    (last.op = "call" /\ last.frames = <<>>) =>
        ~rmiResultCallbacks[callables[last.arg.callable].id].has

\* C37: the open callback is invoked at most once per established transport
\* connection: when getSocketId has invoked it on a transport (the client
\* held a socketId), a setSocketId that follows on the same transport does
\* not invoke it again.
C37_OpenCallbackOncePerTransport ==
    [][(/\ last.op = "getSocketId"
        /\ last.calls = <<"open">>
        /\ last'.op = "setSocketId"
        /\ last'.sock = last.sock) => last'.calls = <<>>]_vars

\* C32: after disconnect() the client opens no transport until the
\* application calls connect() (which it never does here): from disconnect()
\* to the next close event no step opens one, in particular not a reconnect
\* timer that an earlier drop scheduled.
C32_NoReconnectAfterDisconnect ==
    [][disconnectPending => Len(sockets') = Len(sockets)]_vars

\* C33: handledClose is true only between a disconnect() call and the close
\* event that call causes, that is, only while the current transport is being
\* closed by the client; and with autoReconnect on, the close event of a
\* transport the client was not closing (a drop) always schedules a reconnect.
C33_HandledCloseOnlyWhileClosing ==
    /\ [](handledClose => (socket # 0 /\ sockets[socket] \in {"CLOSING", "ABORTING"}))
    /\ [][(/\ last'.op = "close"
           /\ autoReconnect
           /\ sockets[last'.sock] \in {"CONNECTING", "OPEN"}) => last'.sched]_vars

\* C34: with autoReconnect on and disconnect() never called, every close
\* event schedules another attempt, and once the peer accepts a transport and
\* completes the handshake the client is online again: every close event is
\* followed by a state in which the client is online.
C34_RetryUntilOnline ==
    /\ [][last'.op = "close" => (last'.sched /\ timers' = timers + 1)]_vars
    /\ [][(last'.op = "timer" /\ ~online) => last'.opened = 1]_vars
    /\ (last.op = "close") ~> online

\* The client is online on a transport opened after two earlier ones closed.
C34_Witness ==
    /\ online
    /\ Len(sockets) = 3
    /\ sockets[1] = "CLOSED"
    /\ sockets[2] = "CLOSED"
    /\ socket = 3
    /\ sockets[3] = "OPEN"
    /\ last.op = "setSocketId"

\* C35: every write on a CLIENT view that changes the mirror is eventually
\* transmitted: a write of a key whose sync command was not handed to the
\* transport (none open at the time) is followed, once the client is
\* connected again, by a sync command for that key.
C35_WriteEventuallySent ==
    \A k \in Keys :
        (last.op = "set" /\ last.ret = "true" /\ last.arg.key = k
            /\ last.frames = <<>>)
          ~> (last.op = "set" /\ last.arg.key = k /\ Len(last.frames) = 1)

====
